---- MODULE Spec2Model ----
(***************************************************************************)
(* A model of the flow execution engine of openfl's experimental FLSpec    *)
(* (src/openfl/experimental/interface/fl_spec.py): the primary flow state, *)
(* the process-wide clone registry, the Foreach Method Set, the instance   *)
(* snapshots and the next()/run() primitives.                              *)
(*                                                                         *)
(* Representation.  An optional Python value (an attribute that may be     *)
(* missing, a keyword that may be absent, None) is a sequence of length 0  *)
(* or 1.  An attribute value is a list of strings.  The list object behind *)
(* _foreach_methods lives in a heap of list objects and an FLSpec object   *)
(* holds a reference into it, so that `a._foreach_methods =                *)
(* b._foreach_methods` (aliasing) and deepcopy (a fresh list) differ.      *)
(***************************************************************************)
EXTENDS Naturals, Sequences, FiniteSets, TLC

VARIABLES
    flow,      \* the primary FLSpec instance (self)
    _clones,   \* FLSpec._clones: the class-level clone registry
    heap,      \* the list objects that _foreach_methods fields refer to
    pc,        \* "idle", or "executing" while run() is inside runtime.execute_task
    region,    \* the Runtime's bookkeeping of the current foreach region
    raised,    \* the exception the last call raised (type "none": it returned)
    call,      \* the last call made on the engine and its arguments
    other      \* a second FLSpec instance of the process, with its own pc and call

vars == <<flow, _clones, heap, pc, region, raised, call, other>>

\* ------------------------------------------------------------------ bounds

\* Longest Foreach Method Set the model lets the engine grow.
MaxFm == 3
\* Longest list of snapshots handed to restore_instance_snapshot.
MaxSnaps == 2
\* Longest failure message (in words) of Runtime.execute_task.
MaxMsgLen == 3

\* ------------------------------------------------------------ the universe

\* Collaborator identities.
Ids == {"c1", "c2"}
\* Names of the flow attributes (artifacts) the user's steps define: the
\* collection a foreach fans out over, and a datum.
Names == {"collaborators", "x"}
\* Values of flow attributes: lists of strings.
ValuesOf(name) ==
    IF name = "collaborators" THEN {<<"c1">>, <<"c1", "c2">>} ELSE {<<"1">>, <<"2">>}
\* The steps of the flow, by name.
Steps == {"start", "train", "join"}
\* Heap addresses: the list of each of the two instances, one per clone of
\* the registry and of the clone set a request still holds after the
\* registry was rebound, one being allocated.
Refs == 0 .. (2 * Cardinality(Ids) + 2)

None == <<>>
Some(v) == <<v>>
Has(o) == o # <<>>
Get(o) == o[1]

Range(s) == {s[i] : i \in DOMAIN s}

\* All sequences over S of length at most n.
SeqsUpTo(S, n) == UNION {[1 .. k -> S] : k \in 0 .. n}

\* All partial maps from Names to Values: the attribute dictionaries.
AttrMaps ==
    UNION {{a \in [D -> UNION {ValuesOf(n) : n \in Names}] :
               \A n \in D : a[n] \in ValuesOf(n)} : D \in SUBSET Names}

\* ---------------------------------------------------------- step metadata

\* Role markers of the flow's steps (set by the step decorators).
aggregator_step(f) == f \in {"start", "join"}

collaborator_step(f) == f \in {"train"}

\* 4.1: previous step aggregator-only, next step collaborator-capable.
aggregator_to_collaborator(f, parent_func) ==
    /\ aggregator_step(parent_func)
    /\ ~collaborator_step(parent_func)
    /\ collaborator_step(f)

\* 4.1: previous step collaborator-only, next step aggregator-capable.
collaborator_to_aggregator(f, parent_func) ==
    /\ collaborator_step(parent_func)
    /\ ~aggregator_step(parent_func)
    /\ aggregator_step(f)

\* 4.6: a transfer is due exactly on a collaborator->aggregator transition.
should_transfer(f, parent_func) == collaborator_to_aggregator(f, parent_func)

\* ------------------------------------------------------------- exceptions

NoError == [type |-> "none", msg |-> <<>>]

Error(t) == [type |-> t, msg |-> <<>>]

\* A world is the engine's whole state while one call runs: the call's
\* statements transform it one after the other, and once w.err is set the
\* remaining statements are skipped (the exception propagates).
Ok(w) == w.err.type = "none"

Raise(w, t) == [w EXCEPT !.err = Error(t)]

World == [flow |-> flow, clones |-> _clones, heap |-> heap, err |-> NoError,
          ofm |-> other.flow.fm, oset |-> other.flow.args.clones]

\* --------------------------------------------------------------- the heap

UsedRefs(w) ==
    {w.flow.fm, w.ofm}
        \cup {w.clones.map[c].fm : c \in DOMAIN w.clones.map}
        \cup {w.flow.args.clones.map[c].fm : c \in DOMAIN w.flow.args.clones.map}
        \cup {w.oset.map[c].fm : c \in DOMAIN w.oset.map}

\* A new list object: the lowest address nothing refers to.
Fresh(w) == CHOOSE r \in Refs \ UsedRefs(w) : \A q \in Refs \ UsedRefs(w) : r <= q

\* The identities in a fixed order, and those among them the registry holds.
IdOrder == <<"c1", "c2">>

Present(w) == SelectSeq(IdOrder, LAMBDA c : c \in DOMAIN w.clones.map)

\* The lists of the clones of a dict, in the order of the identities.
ListsOf(map) ==
    LET ids == SelectSeq(IdOrder, LAMBDA c : c \in DOMAIN map)
    IN [i \in 1 .. Len(ids) |-> map[ids[i]].fm]

\* The clones of a dict with their lists renumbered.
Renumbered(map, rank) ==
    [c \in DOMAIN map |-> [map[c] EXCEPT !.fm = rank[map[c].fm]]]

\* Addresses are not observable: at the end of a call unreachable lists are
\* collected and the reachable ones renumbered in the order the primary, the
\* clones of the registry, the clones its request holds, the second instance
\* and the clones its request holds refer to them (aliasing is kept, the
\* numbering is canonical).
Collect(w) ==
    LET refs == <<w.flow.fm>> \o ListsOf(w.clones.map)
                    \o ListsOf(w.flow.args.clones.map)
                    \o <<w.ofm>> \o ListsOf(w.oset.map)
        firsts == {i \in 1 .. Len(refs) : \A j \in 1 .. (i - 1) : refs[j] # refs[i]}
        rank == [r \in Range(refs) |->
                    Cardinality({i \in firsts : \A j \in 1 .. i : refs[j] # r})]
        old == [k \in 0 .. (Cardinality(firsts) - 1) |->
                    CHOOSE r \in Range(refs) : rank[r] = k]
    IN [w EXCEPT
          !.flow.fm = rank[w.flow.fm],
          !.ofm = rank[w.ofm],
          !.clones.map = Renumbered(w.clones.map, rank),
          !.flow.args.clones.map = Renumbered(w.flow.args.clones.map, rank),
          !.oset.map = Renumbered(w.oset.map, rank),
          !.heap = [k \in Refs |-> IF k \in DOMAIN old THEN w.heap[old[k]] ELSE <<>>]]

\* copy.deepcopy of an FLSpec object: every field copied, its list a new one.
deepcopy(w, o, r) ==
    [obj |-> [o EXCEPT !.fm = r], heap |-> [w.heap EXCEPT ![r] = w.heap[o.fm]]]

\* ------------------------------------------------------------ FLSpec state

\* FLSpec.__init__: an empty Foreach Method Set; no attribute, runtime,
\* metaflow interface or execution request yet.
NoSet == [held |-> "none", map |-> <<>>]

NoArgs == [form |-> "unset", f |-> "", parent |-> "", ss |-> None,
           kwargs |-> [foreach |-> None, include |-> None, exclude |-> None],
           clones |-> NoSet]

__init__ ==
    [attrs |-> <<>>, input |-> None, fm |-> 0, execute_next |-> None,
     mi |-> None, runtime |-> None, args |-> NoArgs]

\* A second instance, constructed and not used yet: its list is its own.
Constructed(r) ==
    [flow |-> [__init__ EXCEPT !.fm = r], pc |-> "idle", call |-> [op |-> "init"],
     raised |-> [type |-> "none", msg |-> <<>>],
     region |-> [selected |-> {}, detected |-> {}]]

\* The fields of a clone or snapshot the engine reads: a deep copy of the
\* primary carries all of them.
CloneOf(o) ==
    [attrs |-> o.attrs, input |-> o.input, fm |-> o.fm,
     execute_next |-> o.execute_next, mi |-> o.mi]

\* cls._clones = <a new dict>: the name is bound to a new object, and a
\* request that holds the old one (execute_task_args[3], line 242) keeps it
\* with the clones it had.
Rebind(w) ==
    LET Keep(s) == IF s.held = "registry"
                   THEN [held |-> "detached", map |-> w.clones.map] ELSE s
    IN [w EXCEPT !.flow.args.clones = Keep(@),
                 !.oset = Keep(@),
                 !.clones = [isdict |-> TRUE, map |-> <<>>]]

\* FLSpec._reset_clones: cls._clones = {}.
_reset_clones(w) == Rebind(w)

\* _create_clones adding to the registry instead of replacing it.
RECURSIVE create_clones_keeping(_, _, _)
create_clones_keeping(w, instance, names) ==
    IF names = {} THEN [w EXCEPT !.clones.isdict = TRUE]
    ELSE LET name == CHOOSE n \in names : TRUE
             d == deepcopy(w, CloneOf(instance), Fresh(w))
             w1 == [w EXCEPT !.clones.map = (name :> d.obj) @@ w.clones.map,
                             !.heap = d.heap]
         IN create_clones_keeping(w1, instance, names \ {name})

\* FLSpec._create_clones: cls._clones = {name: deepcopy(instance) for name in names}.
RECURSIVE CreateEach(_, _, _)
CreateEach(w, instance, names) ==
    IF names = {} THEN w
    ELSE LET name == CHOOSE n \in names : TRUE
             d == deepcopy(w, CloneOf(instance), Fresh(w))
             w1 == [w EXCEPT !.clones.map = (name :> d.obj) @@ w.clones.map,
                             !.heap = d.heap]
         IN CreateEach(w1, instance, names \ {name})

_create_clones(w, instance, names) == CreateEach(Rebind(w), instance, names)

\* ------------------------------------------------------- attribute filter

\* generate_artifacts: the flow attributes of an object are its artifacts;
\* the engine's own fields (input, execute_next, execute_task_args and the
\* underscore-prefixed ones) are not.
generate_artifacts(ctx) == ctx.attrs

hasattr(ctx, name) == name \in DOMAIN ctx.attrs

Restrict(attrs, D) == [n \in D |-> attrs[n]]

\* 4.3: include and exclude together are a configuration error; include
\* keeps only the named attributes; exclude detaches the named attributes
\* that are present.  Values are never altered.
filter_attributes(ctx, kwargs) ==
    IF Has(kwargs.include) /\ Has(kwargs.exclude)
    THEN [ctx |-> ctx, err |-> Error("RuntimeError")]
    ELSE IF Has(kwargs.include)
    THEN [ctx |-> [ctx EXCEPT !.attrs =
                      Restrict(ctx.attrs, DOMAIN ctx.attrs \cap Range(Get(kwargs.include)))],
          err |-> NoError]
    ELSE IF Has(kwargs.exclude)
    THEN [ctx |-> [ctx EXCEPT !.attrs =
                      Restrict(ctx.attrs, DOMAIN ctx.attrs \ Range(Get(kwargs.exclude)))],
          err |-> NoError]
    ELSE [ctx |-> ctx, err |-> NoError]

\* ------------------------------------------------------ snapshot manager

\* _capture_instance_snapshot called once the filter has been applied: the
\* backup is a copy of the filtered state.
capture_after_filtering(w, kwargs) ==
    IF Has(kwargs.exclude) \/ Has(kwargs.include)
    THEN << [attrs |-> filter_attributes(w.flow, kwargs).ctx.attrs] >>
    ELSE <<>>

\* FLSpec._capture_instance_snapshot: [deepcopy(self)] when include or
\* exclude is among the kwargs, [] otherwise.  Of a backup only its artifacts
\* are ever read.
_capture_instance_snapshot(w, kwargs) ==
    IF Has(kwargs.exclude) \/ Has(kwargs.include)
    THEN << [attrs |-> w.flow.attrs] >>
    ELSE <<>>

\* restore_instance_snapshot without the hasattr test: every artifact of a
\* backup is set on ctx, present or not.
RECURSIVE restore_overwriting(_, _)
restore_overwriting(ctx, instance_snapshot) ==
    IF instance_snapshot = <<>> THEN ctx
    ELSE restore_overwriting(
           [ctx EXCEPT !.attrs = generate_artifacts(Head(instance_snapshot)) @@ ctx.attrs],
           Tail(instance_snapshot))

\* FLSpec.restore_instance_snapshot: for each backup in turn, every artifact
\* of the backup that ctx does not have is set on ctx.
RECURSIVE restore_instance_snapshot(_, _)
restore_instance_snapshot(ctx, instance_snapshot) ==
    IF instance_snapshot = <<>> THEN ctx
    ELSE LET backup == Head(instance_snapshot)
             artifacts == generate_artifacts(backup)
             attrs1 == [n \in DOMAIN ctx.attrs \cup DOMAIN artifacts |->
                          IF hasattr(ctx, n) THEN ctx.attrs[n] ELSE artifacts[n]]
         IN restore_instance_snapshot([ctx EXCEPT !.attrs = attrs1],
                                      Tail(instance_snapshot))

\* ------------------------------------------------------ clone preparation

NumClones(w) == Cardinality(DOMAIN w.clones.map)

\* FLSpec._clones[col]: a missing key of the dict is a KeyError, and the
\* registry as the class defines it (a list) takes no string index.
LookupError(w) == IF w.clones.isdict THEN "KeyError" ELSE "TypeError"

\* The loop of get_clones over the selected collaborators, from the i-th.
RECURSIVE GetClonesLoop(_, _, _)
GetClonesLoop(w, selected, i) ==
    IF ~Ok(w) \/ i > Len(selected) THEN w
    ELSE LET col == selected[i]
         IN IF col \notin DOMAIN w.clones.map THEN Raise(w, LookupError(w))
            ELSE LET w1 == [w EXCEPT !.clones.map[col].input = Some(col),
                                     !.clones.map[col].fm = w.flow.fm]
                 IN IF ~Has(w.flow.mi) THEN Raise(w1, "AttributeError")
                    ELSE GetClonesLoop(
                           [w1 EXCEPT !.clones.map[col].mi = w.flow.mi],
                           selected, i + 1)

\* get_clones building clones for the selected collaborators only.
get_clones_of_selected(w, kwargs) ==
    IF ~Has(kwargs.foreach) THEN Raise(_reset_clones(w), "KeyError")
    ELSE IF ~hasattr(w.flow, Get(kwargs.foreach)) THEN Raise(_reset_clones(w), "AttributeError")
    ELSE GetClonesLoop(
           _create_clones(_reset_clones(w), w.flow,
                          Range(w.flow.attrs[Get(kwargs.foreach)])),
           w.flow.attrs[Get(kwargs.foreach)], 1)

\* FLSpec.get_clones: rebuild the registry from the runtime's collaborators,
\* then prepare the clone of every selected collaborator.
get_clones(w, kwargs) ==
    LET w1 == _create_clones(_reset_clones(w), w.flow,
                             Get(w.flow.runtime).collaborators)
    IN IF ~Has(kwargs.foreach) THEN Raise(w1, "KeyError")
       ELSE IF ~hasattr(w1.flow, Get(kwargs.foreach)) THEN Raise(w1, "AttributeError")
       ELSE GetClonesLoop(w1, w1.flow.attrs[Get(kwargs.foreach)], 1)

\* The test of filter_exclude_include on the first name of the list.
FirstPresent(clone, k) == Has(k) /\ hasattr(clone, Get(k)[1])

\* The loop of filter_exclude_include over the selected collaborators.
RECURSIVE FilterLoop(_, _, _, _)
FilterLoop(w, selected, kwargs, i) ==
    IF ~Ok(w) \/ i > Len(selected) THEN w
    ELSE LET col == selected[i]
         IN IF col \notin DOMAIN w.clones.map THEN Raise(w, LookupError(w))
            ELSE LET w1 == [w EXCEPT !.clones.map[col].input = Some(col)]
                     clone == w1.clones.map[col]
                 IN IF (Has(kwargs.exclude) /\ Get(kwargs.exclude) = <<>>)
                       \/ (~FirstPresent(clone, kwargs.exclude)
                           /\ Has(kwargs.include) /\ Get(kwargs.include) = <<>>)
                    THEN Raise(w1, "IndexError")
                    ELSE LET fa == IF FirstPresent(clone, kwargs.exclude)
                                      \/ FirstPresent(clone, kwargs.include)
                                   THEN filter_attributes(clone, kwargs)
                                   ELSE [ctx |-> clone, err |-> NoError]
                             w2 == [w1 EXCEPT !.clones.map[col] = fa.ctx,
                                              !.err = fa.err]
                             artifacts == generate_artifacts(w2.flow)
                         IN IF ~Ok(w2) THEN w2
                            ELSE FilterLoop(
                                   [w2 EXCEPT !.clones.map[col].attrs =
                                                 artifacts @@ fa.ctx.attrs,
                                              !.clones.map[col].fm = w2.flow.fm],
                                   selected, kwargs, i + 1)

\* FLSpec.filter_exclude_include: filter the clone of every selected
\* collaborator and copy the primary's artifacts onto it.
filter_exclude_include(w, f, kwargs) ==
    IF ~hasattr(w.flow, Get(kwargs.foreach)) THEN Raise(w, "AttributeError")
    ELSE FilterLoop(w, w.flow.attrs[Get(kwargs.foreach)], kwargs, 1)

\* ---------------------------------------------------- transition points

\* _is_at_transition_point with the transfer test outside the membership
\* test: a collaborator-to-aggregator step is reported wherever it occurs.
transition_point_unnested(w, c, f, parent_func) ==
    LET self == w.clones.map[c]
        w1 == IF parent_func \in Range(w.heap[self.fm])
              THEN [w EXCEPT !.heap[self.fm] = Append(w.heap[self.fm], f)]
              ELSE w
    IN IF should_transfer(f, parent_func)
       THEN [w |-> [w1 EXCEPT !.clones.map[c].execute_next = Some(f)], ret |-> TRUE]
       ELSE [w |-> w1, ret |-> FALSE]

\* FLSpec._is_at_transition_point on the clone of collaborator c: the world
\* after the call and the value returned.
_is_at_transition_point(w, c, f, parent_func) ==
    LET self == w.clones.map[c]
    IN IF parent_func \in Range(w.heap[self.fm])
       THEN LET w1 == [w EXCEPT !.heap[self.fm] = Append(w.heap[self.fm], f)]
            IN IF should_transfer(f, parent_func)
               THEN [w |-> [w1 EXCEPT !.clones.map[c].execute_next = Some(f)],
                     ret |-> TRUE]
               ELSE [w |-> w1, ret |-> FALSE]
       ELSE [w |-> w, ret |-> FALSE]

\* ------------------------------------------------------------------ next

\* str(self._runtime)
RuntimeKind(w) == Get(w.flow.runtime).kind

\* Lines 231-233: under the distributed runtime a collaborator-only step
\* joins the Foreach Method Set.
AppendForeach(w, f) ==
    IF RuntimeKind(w) = "FederatedRuntime" /\ collaborator_step(f) /\ ~aggregator_step(f)
    THEN [w EXCEPT !.heap[w.flow.fm] = Append(w.heap[w.flow.fm], f)]
    ELSE w

\* Lines 235-251: the execution request.
RecordArgs(w, f, parent_func, ss, kwargs) ==
    IF RuntimeKind(w) = "FederatedRuntime"
    THEN IF Has(kwargs.foreach)
         THEN [w EXCEPT !.flow.args = [form |-> "federated_foreach", f |-> f,
                   parent |-> parent_func, ss |-> ss, kwargs |-> kwargs,
                   clones |-> [held |-> "registry", map |-> <<>>]]]
         ELSE [w EXCEPT !.flow.args = [form |-> "federated", f |-> f,
                   parent |-> parent_func, ss |-> None, kwargs |-> kwargs,
                   clones |-> NoSet]]
    ELSE IF RuntimeKind(w) = "LocalRuntime"
    THEN [w EXCEPT !.flow.args = [form |-> "local", f |-> f,
              parent |-> parent_func, ss |-> ss, kwargs |-> kwargs,
              clones |-> NoSet]]
    ELSE w

\* FLSpec.next(f, **kwargs), called from step parent_func of the primary.
next(w, f, parent_func, kwargs) ==
    IF ~Has(w.flow.runtime) THEN Raise(w, "AttributeError")
    ELSE
    LET a2c == aggregator_to_collaborator(f, parent_func)
        agg_to_collab_ss == IF a2c THEN Some(_capture_instance_snapshot(w, kwargs))
                            ELSE None
        w1 == IF a2c /\ RuntimeKind(w) = "FederatedRuntime" /\ NumClones(w) = 0
              THEN get_clones(w, kwargs) ELSE w
        fa == filter_attributes(w1.flow, kwargs)
        w2 == IF Ok(w1) THEN [w1 EXCEPT !.flow = fa.ctx, !.err = fa.err] ELSE w1
        w3 == IF Ok(w2) THEN AppendForeach(w2, f) ELSE w2
        w4 == IF Ok(w3) /\ RuntimeKind(w) = "FederatedRuntime" /\ Has(kwargs.foreach)
              THEN filter_exclude_include(w3, f, kwargs) ELSE w3
    IN IF Ok(w4) THEN RecordArgs(w4, f, parent_func, agg_to_collab_ss, kwargs) ELSE w4

\* ------------------------------------------------------------------- run

\* run() creating the clones without emptying the registry first.
run_prepare_keeping(w) ==
    LET w1 == [w EXCEPT !.flow.mi = Some("metaflow")]
        r == Fresh(w1)
        w2 == [w1 EXCEPT !.flow.fm = r, !.heap[r] = <<>>]
    IN create_clones_keeping(w2, w2.flow, Get(w.flow.runtime).collaborators)

\* Lines 62-71 of run(): up to the call of runtime.execute_task.
run_prepare(w) ==
    LET w1 == [w EXCEPT !.flow.mi = Some("metaflow")]
        r == Fresh(w1)
        w2 == [w1 EXCEPT !.flow.fm = r, !.heap[r] = <<>>]
    IN _create_clones(_reset_clones(w2), w2.flow, Get(w.flow.runtime).collaborators)

\* The words of a failure message; "cannot pickle" and "Failed to unpickle"
\* are the sequences of words line 83 looks for.
Words == {"cannot", "pickle", "Failed", "to", "unpickle"}

\* pattern in str(e): the pattern's words occur in a row.
Contains(msg, pattern) ==
    \E i \in 0 .. Len(msg) :
        /\ i + Len(pattern) <= Len(msg)
        /\ \A j \in 1 .. Len(pattern) : msg[i + j] = pattern[j]

\* Line 83 with its second pattern forgotten.
IsCannotPickle(msg) == Contains(msg, <<"cannot", "pickle">>)

\* Line 83.
IsSerializationFailure(msg) ==
    Contains(msg, <<"cannot", "pickle">>) \/ Contains(msg, <<"Failed", "to", "unpickle">>)

\* Lines 84-93: the remediation text.
Remediation == <<"A serialization error was encountered",
                 "Try rerunning the flow without ray">>

\* Lines 82-96: what run() raises when execute_task raised e.
run_except(e) ==
    IF IsSerializationFailure(e.msg)
    THEN [type |-> "SerializationError", msg |-> e.msg \o Remediation]
    ELSE e

\* Lines 97-98: setattr(self, name, attr) for the final attributes.
run_apply(w, final_attributes) ==
    [w EXCEPT !.flow.attrs = final_attributes @@ w.flow.attrs]

\* ---------------------------------------------------------------- actions

Init ==
    /\ flow = __init__
    /\ _clones = [isdict |-> FALSE, map |-> <<>>]
    /\ heap = [r \in Refs |-> <<>>]
    /\ pc = "idle"
    /\ region = [selected |-> {}, detected |-> {}]
    /\ raised = NoError
    /\ call = [op |-> "init"]
    /\ other = Constructed(1)

\* Commit the world a call ended in.
Commit(w) ==
    LET c == Collect(w)
    IN /\ flow' = c.flow
       /\ _clones' = c.clones
       /\ heap' = c.heap
       /\ raised' = c.err
       /\ other' = [other EXCEPT !.flow.fm = c.ofm, !.flow.args.clones = c.oset]

\* A user step assigns a flow attribute (self.name = value).
SetAttr(name, value) ==
    /\ flow' = [flow EXCEPT !.attrs = (name :> value) @@ flow.attrs]
    /\ call' = [op |-> "setattr"]
    /\ raised' = NoError
    /\ UNCHANGED <<_clones, heap, pc, region, other>>

\* FLSpec._create_clones(self, names), called directly.
CreateClones(names) ==
    /\ Commit(_create_clones(World, flow, names))
    /\ call' = [op |-> "_create_clones", names |-> names]
    /\ UNCHANGED <<pc, region>>

\* FLSpec._reset_clones(), called directly.
ResetClones ==
    /\ Commit(_reset_clones(World))
    /\ call' = [op |-> "_reset_clones"]
    /\ UNCHANGED <<pc, region>>

\* The runtimes a flow is given: str(runtime) and runtime.collaborators.
RuntimeKinds == {"LocalRuntime", "FederatedRuntime", "OtherRuntime"}

Runtimes == [kind : RuntimeKinds, collaborators : {Ids}]

\* The setter assigning before it tests: a non-Runtime is stored and then
\* rejected.
SetRuntimeUnchecked(isruntime, runtime) ==
    /\ flow' = [flow EXCEPT !.runtime = Some(runtime)]
    /\ raised' = IF isruntime THEN NoError ELSE Error("TypeError")
    /\ call' = [op |-> "runtime.setter", isruntime |-> isruntime]
    /\ UNCHANGED <<_clones, heap, pc, region, other>>

\* The runtime property's setter (lines 109-115); isruntime is
\* isinstance(runtime, Runtime).
SetRuntime(isruntime, runtime) ==
    /\ IF isruntime
       THEN flow' = [flow EXCEPT !.runtime = Some(runtime)] /\ raised' = NoError
       ELSE flow' = flow /\ raised' = Error("TypeError")
    /\ call' = [op |-> "runtime.setter", isruntime |-> isruntime]
    /\ UNCHANGED <<_clones, heap, pc, region, other>>

\* The transitions the user's flow declares, as (parent, f): a fan-out from
\* start to train, train repeated on the collaborator, the join, and the
\* next round.
Edges == {<<"start", "train">>, <<"train", "train">>, <<"train", "join">>,
          <<"join", "start">>}

\* The keyword arguments of next().
Lists == {<<"x">>, <<"collaborators">>, <<"y", "x">>, <<"y", "collaborators">>}

Optional(S) == {None} \cup {Some(v) : v \in S}

KwargsSet ==
    {k \in [foreach : Optional({"collaborators"}), include : Optional(Lists),
            exclude : Optional(Lists)] :
        (Has(k.include) /\ Has(k.exclude)) =>
            (k.include = Some(<<"collaborators">>) /\ k.exclude = Some(<<"x">>))}

\* The identities a fan-out hands to the Runtime: the elements of the
\* collection attribute.
Selected(kwargs) ==
    IF Has(kwargs.foreach) /\ hasattr(flow', Get(kwargs.foreach))
    THEN Range(flow'.attrs[Get(kwargs.foreach)]) \cap DOMAIN _clones'.map
    ELSE {}

\* self.next(f, **kwargs), called from step parent_func.
NextCall(f, parent_func, kwargs) ==
    \E w \in {next(World, f, parent_func, kwargs)} :
       /\ \A r \in Refs : Len(w.heap[r]) <= MaxFm
       /\ Commit(w)
       /\ call' = [op |-> "next", f |-> f, parent_func |-> parent_func,
                   kwargs |-> kwargs]
       /\ region' = IF Ok(w) /\ Has(kwargs.foreach)
                    THEN [selected |-> Selected(kwargs), detected |-> {}]
                    ELSE region
       /\ UNCHANGED pc

\* The clone set the Runtime works on: the dict the request of the fan-out
\* holds, which is the registry unless the registry was rebound since.
Handed ==
    IF flow.args.clones.held = "detached" THEN flow.args.clones.map ELSE _clones.map

\* The Runtime asks the clone of a selected collaborator, after its step
\* parent_func declared f as next, whether its sequence has ended; the
\* collaborator's sequence stops at the first transition point.
TransitionCheck(c, f, parent_func) ==
    /\ c \in (region.selected \ region.detected) \cap DOMAIN Handed
    /\ LET kept == flow.args.clones.held = "detached"
           r == _is_at_transition_point(
                    IF kept THEN [World EXCEPT !.clones.map = Handed] ELSE World,
                    c, f, parent_func)
           w == IF kept
                THEN [r.w EXCEPT !.clones = _clones,
                                 !.flow.args.clones.map = r.w.clones.map]
                ELSE r.w
       IN /\ \A q \in Refs : Len(w.heap[q]) <= MaxFm
          /\ Commit(w)
          /\ call' = [op |-> "_is_at_transition_point", c |-> c, f |-> f,
                      parent_func |-> parent_func, ret |-> r.ret]
          /\ region' = IF r.ret
                       THEN [region EXCEPT !.detected = @ \cup {c}]
                       ELSE region
    /\ UNCHANGED pc

\* The Runtime merges a region once every selected collaborator reached its
\* transition point: the snapshot of the fan-out is restored into the
\* primary, which goes on with the aggregator step.
Merge ==
    /\ region.selected # {}
    /\ region.detected = region.selected
    /\ flow' = restore_instance_snapshot(flow,
                   IF Has(flow.args.ss) THEN Get(flow.args.ss) ELSE <<>>)
    /\ region' = [selected |-> {}, detected |-> {}]
    /\ raised' = NoError
    /\ call' = [op |-> "merge", merged |-> region.selected]
    /\ UNCHANGED <<_clones, heap, pc, other>>

\* restore_instance_snapshot(self, instance_snapshot), called directly.
Restore(instance_snapshot) ==
    /\ flow' = restore_instance_snapshot(flow, instance_snapshot)
    /\ raised' = NoError
    /\ call' = [op |-> "restore_instance_snapshot", ctx |-> flow.attrs,
                instance_snapshot |-> instance_snapshot]
    /\ UNCHANGED <<_clones, heap, pc, region, other>>

\* run(), up to the point where it calls runtime.execute_task or ends
\* without calling it.
RunBegin ==
    /\ pc = "idle"
    /\ IF ~Has(flow.runtime)
       THEN /\ raised' = Error("AttributeError")
            /\ UNCHANGED <<flow, _clones, heap, pc, other>>
       ELSE IF RuntimeKind(World) = "LocalRuntime"
       THEN /\ Commit(run_prepare(World))
            /\ pc' = "executing"
       ELSE IF RuntimeKind(World) = "FederatedRuntime"
       THEN /\ raised' = NoError
            /\ UNCHANGED <<flow, _clones, heap, pc, other>>
       ELSE /\ raised' = [type |-> "Exception", msg |-> <<"Runtime not implemented">>]
            /\ UNCHANGED <<flow, _clones, heap, pc, other>>
    /\ call' = [op |-> "run", task |-> "not called",
                left |-> [fm |-> heap[flow.fm], keys |-> DOMAIN _clones.map,
                          raised |-> raised.type]]
    /\ UNCHANGED region

\* runtime.execute_task raises e: run() ends with run_except(e).
TaskFails(e) ==
    /\ pc = "executing"
    /\ pc' = "idle"
    /\ raised' = run_except(e)
    /\ call' = [op |-> "run", task |-> "raised", e |-> e]
    /\ UNCHANGED <<flow, _clones, heap, region, other>>

\* runtime.execute_task returns the final attributes: run() applies them.
TaskReturns(final_attributes) ==
    /\ pc = "executing"
    /\ pc' = "idle"
    /\ flow' = run_apply(World, final_attributes).flow
    /\ raised' = NoError
    /\ call' = [op |-> "run", task |-> "returned", final |-> final_attributes]
    /\ UNCHANGED <<_clones, heap, region, other>>

\* ------------------------------------------- the flow engine's life cycle

\* The step the primary is at: the one the last recorded request names.
Current == IF flow.args.form = "unset" THEN "start" ELSE flow.args.f

\* No step has declared its successor yet.
Unstarted == flow.args.form = "unset" /\ pc = "idle"

\* The keyword arguments of a plain transition and of a plain fan-out.
FlowKwargs == {k \in KwargsSet : k.include = None /\ k.exclude = None}

\* The user builds a flow, gives it attributes and a runtime, runs it, and
\* its steps declare their successors along Edges; the Runtime checks the
\* clones' transition points and merges the region.
Next ==
    \/ \E value \in ValuesOf("collaborators") :
          flow.runtime = None /\ SetAttr("collaborators", value)
    \/ \E value \in ValuesOf("x") : Unstarted /\ SetAttr("x", value)
    \/ Unstarted /\ _clones.isdict /\ ResetClones
    \/ \E rt \in Runtimes : Unstarted /\ SetRuntime(TRUE, rt)
    \/ Unstarted /\ ~Has(flow.mi) /\ RunBegin
    \/ TaskFails([type |-> "ValueError", msg |-> <<"pickle">>])
    \/ TaskReturns(<<>>)
    \/ \E e \in Edges, kwargs \in FlowKwargs :
          /\ e[1] = Current
          /\ Has(flow.runtime)
          /\ (RuntimeKind(World) = "LocalRuntime") = (pc = "executing")
          /\ NextCall(e[2], e[1], kwargs)
    \/ \E c \in Ids, e \in Edges : TransitionCheck(c, e[2], e[1])
    \/ Merge

Spec == Init /\ [][Next]_vars

\* ------------------------------------------------- restore, on every input

\* The backups a snapshot list is made of.
Backups == {[attrs |-> a] : a \in AttrMaps}

\* A target with any attributes.
InitRestore ==
    /\ \E a \in AttrMaps : flow = [__init__ EXCEPT !.attrs = a]
    /\ _clones = [isdict |-> FALSE, map |-> <<>>]
    /\ heap = [r \in Refs |-> <<>>]
    /\ pc = "idle"
    /\ region = [selected |-> {}, detected |-> {}]
    /\ raised = NoError
    /\ call = [op |-> "init"]
    /\ other = Constructed(1)

NextRestore ==
    \E instance_snapshot \in SeqsUpTo(Backups, MaxSnaps) :
        call.op = "init" /\ Restore(instance_snapshot)

SpecRestore == InitRestore /\ [][NextRestore]_vars

\* ---------------------------------------------- the registry, on every input

\* A primary whose Foreach Method Set is empty or holds a step.
InitRegistry ==
    /\ flow = __init__
    /\ _clones = [isdict |-> FALSE, map |-> <<>>]
    /\ \E l \in {<<>>, <<"train">>} : heap = [r \in Refs |-> IF r = 0 THEN l ELSE <<>>]
    /\ pc = "idle"
    /\ region = [selected |-> {}, detected |-> {}]
    /\ raised = NoError
    /\ call = [op |-> "init"]
    /\ other = Constructed(1)

NextRegistry ==
    \/ \E name \in Names : \E value \in ValuesOf(name) : SetAttr(name, value)
    \/ \E names \in SUBSET Ids : CreateClones(names)
    \/ ResetClones

SpecRegistry == InitRegistry /\ [][NextRegistry]_vars

\* ---------------------------------------------------- run, on every failure

\* The failures of execute_task: any exception type, any message.
ErrorTypes == {"TypeError", "RuntimeError"}

Failures == [type : ErrorTypes, msg : SeqsUpTo(Words, MaxMsgLen)]

\* The flow is given a runtime and run once.
NextRun ==
    \/ \E value \in ValuesOf("x") : flow.runtime = None /\ SetAttr("x", value)
    \/ \E b \in BOOLEAN, rt \in Runtimes : call.op # "run" /\ SetRuntime(b, rt)
    \/ call.op # "run" /\ RunBegin
    \/ \E e \in Failures : TaskFails(e)
    \/ \E final_attributes \in AttrMaps : TaskReturns(final_attributes)

SpecRun == Init /\ [][NextRun]_vars

\* ------------------------------------------------ one call, from every state

\* The states a flow can be in when a step calls next() or the user calls
\* run(): the clones were created (by run() or get_clones) when the primary
\* had the attributes `then` and the Foreach Method Set l, and the primary
\* has the attributes `now`.
Prepared(now, then, rt, mi, l, registry) ==
    LET w0 == [flow |-> [__init__ EXCEPT !.attrs = then, !.mi = mi,
                                          !.runtime = Some(rt)],
               clones |-> [isdict |-> registry # "list", map |-> <<>>],
               heap |-> [r \in Refs |-> IF r = 0 THEN l ELSE <<>>],
               err |-> NoError, ofm |-> Cardinality(Ids) + 1, oset |-> NoSet]
        w1 == IF registry = "clones" THEN _create_clones(w0, w0.flow, rt.collaborators)
              ELSE w0
    IN Collect([w1 EXCEPT !.flow.attrs = now])

\* What the clones can hold that the primary lacks or has changed since.
Stale == {<<>>, ("x" :> <<"1">>), ("collaborators" :> <<"c1", "c2">>) @@ ("x" :> <<"2">>)}

InitNext ==
    /\ \E now \in AttrMaps, then \in Stale, rt \in Runtimes,
          mi \in Optional({"metaflow"}), l \in {<<>>, <<"train">>},
          registry \in {"list", "empty", "clones"} :
         /\ registry = "list" => mi = None
         /\ registry # "clones" => then = <<>>
         /\ LET w == Prepared(now, then, rt, mi, l, registry)
            IN /\ flow = w.flow /\ _clones = w.clones /\ heap = w.heap
               /\ other = Constructed(w.ofm)
    /\ pc = "idle"
    /\ region = [selected |-> {}, detected |-> {}]
    /\ raised = NoError
    /\ call = [op |-> "init"]

NextNext ==
    \/ \E e \in Edges, kwargs \in KwargsSet :
          call.op = "init" /\ NextCall(e[2], e[1], kwargs)
    \/ call.op = "init" /\ RunBegin
    \/ \E value \in ValuesOf("x") :
          /\ call.op = "next" /\ raised = NoError
          /\ Has(flow.args.ss) /\ Get(flow.args.ss) # <<>>
          /\ SetAttr("x", value)

SpecNext == InitNext /\ [][NextNext]_vars

\* ------------------------------------------- two flows, one clone registry

\* The process turns from one flow to the other: each instance keeps its own
\* fields, position, runtime bookkeeping and last call; FLSpec._clones and
\* the list objects are the process's.
Switch ==
    LET c == Collect([flow |-> other.flow, clones |-> _clones, heap |-> heap,
                      err |-> other.raised, ofm |-> flow.fm,
                      oset |-> flow.args.clones])
    IN /\ flow' = c.flow
       /\ _clones' = c.clones
       /\ heap' = c.heap
       /\ pc' = other.pc
       /\ call' = other.call
       /\ raised' = other.raised
       /\ region' = other.region
       /\ other' = [flow |-> [flow EXCEPT !.fm = c.ofm, !.args.clones = c.oset],
                    pc |-> pc, call |-> call,
                    raised |-> raised, region |-> region]

\* The runtimes of the two flows.
Distributed == [kind |-> "FederatedRuntime", collaborators |-> Ids]

Local == [kind |-> "LocalRuntime", collaborators |-> {"c1"}]

\* Two flows, each given its runtime: one, over one or both collaborators,
\* is stepped under the distributed runtime, the other is run under the
\* local one with one collaborator.
InitTwoFlows ==
    /\ \E value \in ValuesOf("collaborators") :
          flow = [__init__ EXCEPT !.attrs = ("collaborators" :> value),
                                  !.runtime = Some(Distributed)]
    /\ other = [Constructed(1) EXCEPT
                   !.flow.attrs = ("collaborators" :> <<"c1">>),
                   !.flow.runtime = Some(Local)]
    /\ _clones = [isdict |-> FALSE, map |-> <<>>]
    /\ heap = [r \in Refs |-> <<>>]
    /\ pc = "idle"
    /\ region = [selected |-> {}, detected |-> {}]
    /\ raised = NoError
    /\ call = [op |-> "init"]

\* The keyword arguments the distributed flow uses: a plain transition or
\* fan-out, or one that excludes the datum after a name no flow has.
TwoFlowKwargs ==
    {k \in KwargsSet : k.include = None /\ k.exclude \in {None, Some(<<"y", "x">>)}}

\* The steps of the distributed flow: start, train on the collaborators,
\* join, and round again.
Loop == {e \in Edges : e[1] # e[2]}

\* Each flow is given a datum; the local flow is run, and its run returns or
\* fails; the steps of the distributed flow declare their successors round
\* the loop, the Runtime checks the clones' transition points and merges the
\* region.  The process may turn to the other flow between any two calls.
NextTwoFlows ==
    \/ Switch
    \/ \E value \in ValuesOf("x") :
          Unstarted /\ "x" \notin DOMAIN flow.attrs /\ SetAttr("x", value)
    \/ Unstarted /\ ~Has(flow.mi) /\ RuntimeKind(World) = "LocalRuntime" /\ RunBegin
    \/ TaskFails([type |-> "ValueError", msg |-> <<"pickle">>])
    \/ TaskReturns(<<>>)
    \/ \E e \in Loop, kwargs \in TwoFlowKwargs :
          /\ e[1] = Current
          /\ RuntimeKind(World) = "FederatedRuntime"
          /\ NextCall(e[2], e[1], kwargs)
    \/ \E c \in Ids, e \in Loop :
          collaborator_step(e[1]) /\ TransitionCheck(c, e[2], e[1])
    \/ Merge

SpecTwoFlows == InitTwoFlows /\ [][NextTwoFlows]_vars

\* ------------------------------ the transition-point check, on every input

\* The Foreach Method Sets a clone can have: empty, or begun by the
\* collaborator step of the fan-out.
ForeachSets ==
    {l \in SeqsUpTo(Steps, MaxFm - 1) : l # <<>> => l[1] = "train"}

\* The clones of a fan-out over c1 and c2, each with a Foreach Method Set of
\* its own.
InitTransition ==
    /\ flow = __init__
    /\ \E l1 \in ForeachSets, l2 \in ForeachSets :
         /\ _clones = [isdict |-> TRUE,
                       map |-> [c \in Ids |->
                                   [CloneOf(__init__) EXCEPT
                                       !.fm = IF c = "c1" THEN 1 ELSE 2,
                                       !.input = Some(c)]]]
         /\ heap = [r \in Refs |-> IF r = 1 THEN l1 ELSE IF r = 2 THEN l2 ELSE <<>>]
    /\ other = Constructed(3)
    /\ pc = "idle"
    /\ region = [selected |-> Ids, detected |-> {}]
    /\ raised = NoError
    /\ call = [op |-> "init"]

NextTransition ==
    \E c \in Ids, f \in Steps, parent_func \in Steps :
        call.op = "init" /\ TransitionCheck(c, f, parent_func)

SpecTransition == InitTransition /\ [][NextTransition]_vars

\* ------------------------------------------ run after run, local runtime

\* Local runtimes over any collaborators.
LocalRuntimes == [kind : {"LocalRuntime"}, collaborators : SUBSET Ids]

\* The flow is run again and again under local runtimes, each run failing or
\* returning; between runs the user assigns attributes, changes the runtime
\* and the registry is rebuilt for other collaborators.
NextHandOff ==
    \/ \E value \in ValuesOf("x") : pc = "idle" /\ SetAttr("x", value)
    \/ \E names \in SUBSET Ids : pc = "idle" /\ CreateClones(names)
    \/ \E rt \in LocalRuntimes : pc = "idle" /\ SetRuntime(TRUE, rt)
    \/ Has(flow.runtime) /\ RunBegin
    \/ TaskFails([type |-> "RuntimeError", msg |-> <<"Failed">>])
    \/ TaskReturns(<<>>)

SpecHandOff == InitRegistry /\ [][NextHandOff]_vars

\* ------------------------------------------------------------- properties

\* The last call was restore_instance_snapshot(target, snapshots).
Restored == call.op = "restore_instance_snapshot"

\* The names of the attributes some snapshot of the list carries.
Carried(instance_snapshot) ==
    UNION {DOMAIN instance_snapshot[i].attrs : i \in DOMAIN instance_snapshot}

\* The first snapshot of the list that carries attribute n.
FirstWith(instance_snapshot, n) ==
    instance_snapshot[CHOOSE i \in DOMAIN instance_snapshot :
        /\ n \in DOMAIN instance_snapshot[i].attrs
        /\ \A j \in 1 .. (i - 1) : n \notin DOMAIN instance_snapshot[j].attrs]

\* Every attribute the target had keeps its value.
NothingOverwritten ==
    \A n \in DOMAIN call.ctx : n \in DOMAIN flow.attrs /\ flow.attrs[n] = call.ctx[n]

\* C1, as stated: restore_instance_snapshot(target, snapshots) never raises,
\* leaves every attribute the target already had with its prior value, and
\* afterwards every attribute that a snapshot has and the target lacked is on
\* the target with that snapshot's value, for every list of snapshots.
C1_EverySnapshotValue ==
    Restored =>
        /\ raised = NoError
        /\ NothingOverwritten
        /\ \A i \in DOMAIN call.instance_snapshot :
             \A n \in DOMAIN call.instance_snapshot[i].attrs \ DOMAIN call.ctx :
                /\ n \in DOMAIN flow.attrs
                /\ flow.attrs[n] = call.instance_snapshot[i].attrs[n]

\* C1, amended: restore_instance_snapshot(target, snapshots) never raises,
\* leaves every attribute the target already had with its prior value, and
\* afterwards the target has exactly its own attributes and those some
\* snapshot carries, each attribute it lacked with the value of the first
\* snapshot of the list that carries it.
C1_RestoreFillsAbsentOnly ==
    Restored =>
        /\ raised = NoError
        /\ NothingOverwritten
        /\ DOMAIN flow.attrs = DOMAIN call.ctx \cup Carried(call.instance_snapshot)
        /\ \A n \in Carried(call.instance_snapshot) \ DOMAIN call.ctx :
             flow.attrs[n] = FirstWith(call.instance_snapshot, n).attrs[n]

\* C1 witness: a restore from two snapshots that disagree on an attribute the
\* target lacks, onto a target that has an attribute of the first snapshot
\* with another value.
C1_Witness ==
    /\ Restored
    /\ Len(call.instance_snapshot) = 2
    /\ "x" \notin DOMAIN call.ctx
    /\ "x" \in DOMAIN call.instance_snapshot[1].attrs
    /\ "x" \in DOMAIN call.instance_snapshot[2].attrs
    /\ call.instance_snapshot[1].attrs["x"] # call.instance_snapshot[2].attrs["x"]
    /\ "collaborators" \in DOMAIN call.ctx
    /\ "collaborators" \in DOMAIN call.instance_snapshot[1].attrs
    /\ call.instance_snapshot[1].attrs["collaborators"] # call.ctx["collaborators"]

\* C3: for every set C of identities and every prior registry content,
\* _create_clones(primary, C) leaves the registry with exactly |C| entries
\* keyed by C, each equal to the primary, field for field, as it was at the
\* call (its Foreach Method Set included).
C3_CreateClonesReplaces ==
    [][\A names \in SUBSET Ids :
          CreateClones(names) =>
            /\ raised' = NoError
            /\ _clones'.isdict
            /\ DOMAIN _clones'.map = names
            /\ Cardinality(DOMAIN _clones'.map) = Cardinality(names)
            /\ \A c \in names :
                 /\ _clones'.map[c].attrs = flow.attrs
                 /\ _clones'.map[c].input = flow.input
                 /\ _clones'.map[c].execute_next = flow.execute_next
                 /\ _clones'.map[c].mi = flow.mi
                 /\ heap'[_clones'.map[c].fm] = heap[flow.fm]]_vars

\* C3 witness: clones were created for c1 alone, of a primary that has an
\* attribute and a step in its Foreach Method Set.
C3_Witness ==
    /\ call.op = "_create_clones"
    /\ call.names = {"c1"}
    /\ DOMAIN _clones.map = {"c1"}
    /\ _clones.map["c1"].attrs = flow.attrs
    /\ "x" \in DOMAIN flow.attrs
    /\ heap[_clones.map["c1"].fm] = <<"train">>

\* The runtime is one of the two kinds the engine supports.
Supported ==
    Has(flow.runtime) /\ RuntimeKind(World) \in {"LocalRuntime", "FederatedRuntime"}

\* C8: a run() that has returned normally under a supported runtime has
\* called the Runtime and applied the final attributes it returned to the
\* primary; otherwise run() raised.
C8_RunReturnsOnlyAfterApplying ==
    (call.op = "run" /\ pc = "idle" /\ raised = NoError /\ Supported) =>
        /\ call.task = "returned"
        /\ \A n \in DOMAIN call.final :
             n \in DOMAIN flow.attrs /\ flow.attrs[n] = call.final[n]

\* C10: when execute_task fails, run() raises and the primary is as it was
\* (no final attribute applied); what it raises is the SerializationError
\* with the message followed by the remediation text exactly when the
\* message contains "cannot pickle" or "Failed to unpickle", and the
\* original error otherwise.
C10_FailureClassified ==
    [][\A e \in Failures :
          TaskFails(e) =>
            /\ flow' = flow
            /\ pc' = "idle"
            /\ raised'.type # "none"
            /\ IF Contains(e.msg, <<"cannot", "pickle">>)
                  \/ Contains(e.msg, <<"Failed", "to", "unpickle">>)
               THEN raised' = [type |-> "SerializationError", msg |-> e.msg \o Remediation]
               ELSE raised' = e]_vars

\* C10 witness: execute_task failed with a message that contains "Failed to
\* unpickle" and not "cannot pickle", and run() raised SerializationError.
C10_Witness ==
    /\ call.op = "run"
    /\ call.task = "raised"
    /\ Contains(call.e.msg, <<"Failed", "to", "unpickle">>)
    /\ ~Contains(call.e.msg, <<"cannot", "pickle">>)
    /\ raised.type = "SerializationError"
    /\ raised.msg = call.e.msg \o Remediation

\* The transition from parent_func to f stays on one party.
SameParty(f, parent_func) ==
    ~aggregator_to_collaborator(f, parent_func)
    /\ ~collaborator_to_aggregator(f, parent_func)

\* C2: a next() whose kwargs hold both include and exclude raises the
\* configuration error with the primary state, the clone registry, the
\* Foreach Method Sets and the recorded request as they were before the call.
C2_BothFiltersRaiseUntouched ==
    [][\A e \in Edges, kwargs \in KwargsSet :
          (Has(kwargs.include) /\ Has(kwargs.exclude) /\ Supported
           /\ NextCall(e[2], e[1], kwargs)) =>
            /\ raised'.type = "RuntimeError"
            /\ flow' = flow
            /\ _clones' = _clones
            /\ heap' = heap]_vars

\* C6: a same-party next(f, exclude=[..]) that completes records a snapshot
\* list of length 1 holding the state as it was before filtering, leaves the
\* primary without the excluded attributes, and a restore from that snapshot
\* puts each of them back with its original value.
C6_SamePartyExcludeSnapshots ==
    [][\A e \in Edges, kwargs \in KwargsSet :
          (SameParty(e[2], e[1]) /\ Has(kwargs.exclude) /\ ~Has(kwargs.include)
           /\ Supported /\ NextCall(e[2], e[1], kwargs) /\ raised' = NoError) =>
            /\ Has(flow'.args.ss)
            /\ Len(Get(flow'.args.ss)) = 1
            /\ Get(flow'.args.ss)[1].attrs = flow.attrs
            /\ \A n \in Range(Get(kwargs.exclude)) : n \notin DOMAIN flow'.attrs
            /\ \A n \in Range(Get(kwargs.exclude)) \cap DOMAIN flow.attrs :
                 restore_instance_snapshot(flow', Get(flow'.args.ss)).attrs[n]
                     = flow.attrs[n]]_vars

\* The last call was a next(f, foreach=name) that completed under the
\* distributed runtime.
FannedOut ==
    /\ call.op = "next"
    /\ Has(call.kwargs.foreach)
    /\ raised = NoError
    /\ Has(flow.runtime)
    /\ RuntimeKind(World) = "FederatedRuntime"

\* C7, as stated: after next(f, foreach=name) completes, the clone set handed
\* to the Runtime has exactly one clone per element of the collection, keyed
\* by it, and the input of every clone is its key, also when the collection
\* is a strict subset of the runtime's collaborators.
C7_OneClonePerElement ==
    FannedOut =>
        /\ DOMAIN _clones.map = Range(flow.attrs[Get(call.kwargs.foreach)])
        /\ \A c \in DOMAIN _clones.map : _clones.map[c].input = Some(c)

\* C7, amended: after next(f, foreach=name) completes under the distributed
\* runtime, the clone set handed to the Runtime is the whole registry: it
\* has a clone for every element of the collection, keyed by it and with
\* that key as its input, and when this call built the registry (an
\* aggregator-to-collaborator transition that found it empty) it has exactly
\* one clone per collaborator of the runtime, selected or not.
C7_CloneForEveryElement ==
    [][\A e \in Edges, kwargs \in KwargsSet :
          (Has(kwargs.foreach) /\ Has(flow.runtime)
           /\ RuntimeKind(World) = "FederatedRuntime"
           /\ NextCall(e[2], e[1], kwargs) /\ raised' = NoError) =>
            /\ flow'.args.form = "federated_foreach"
            /\ \A c \in Range(flow'.attrs[Get(kwargs.foreach)]) :
                 c \in DOMAIN _clones'.map /\ _clones'.map[c].input = Some(c)
            /\ (aggregator_to_collaborator(e[2], e[1]) /\ NumClones(World) = 0) =>
                 DOMAIN _clones'.map = Get(flow.runtime).collaborators]_vars

\* C7 witness: a fan-out over a strict subset of the runtime's collaborators
\* completed; the registry has a clone for both collaborators and only the
\* selected one has its input.
C7_Witness ==
    /\ FannedOut
    /\ flow.args.form = "federated_foreach"
    /\ flow.attrs["collaborators"] = <<"c1">>
    /\ DOMAIN _clones.map = {"c1", "c2"}
    /\ _clones.map["c1"].input = Some("c1")
    /\ _clones.map["c2"].input = None

\* C9: under a runtime that is neither LocalRuntime nor FederatedRuntime,
\* run() raises and leaves the registry, the Foreach Method Sets and the
\* primary as they were, and next() raises too: it never completes without a
\* recorded execution request.
C9_UnsupportedRuntimeRaises ==
    [][(Has(flow.runtime) /\ ~Supported) =>
          /\ RunBegin =>
               /\ raised'.type = "Exception"
               /\ flow' = flow /\ _clones' = _clones /\ heap' = heap
          /\ \A e \in Edges, kwargs \in KwargsSet :
               NextCall(e[2], e[1], kwargs) => raised'.type # "none"]_vars

\* The Foreach Method Set of the clone of collaborator d, before and after
\* a step.
SetOf(d) == heap[_clones.map[d].fm]

SetOfAfter(d) == heap'[_clones'.map[d].fm]

\* C4: once the clones are prepared for a fan-out no clone shares its
\* Foreach Method Set with another clone or with the primary: a step name
\* that a transition-point check appends to one clone's set, or that a later
\* next() appends to the primary's set, appears in no other clone's set.
C4_ClonesShareNothing ==
    [][/\ \A c \in Ids, e \in Edges :
            TransitionCheck(c, e[2], e[1]) =>
                \A d \in DOMAIN _clones.map \ {c} : SetOfAfter(d) = SetOf(d)
       /\ \A e \in Edges, kwargs \in FlowKwargs :
            (flow.args.form = "federated_foreach" /\ ~Has(kwargs.foreach)
             /\ NumClones(World) # 0 /\ NextCall(e[2], e[1], kwargs)) =>
                \A d \in DOMAIN _clones.map : SetOfAfter(d) = SetOf(d)]_vars

\* C5: a foreach over N identities followed by steps up to the
\* collaborator-to-aggregator transition is merged when the transition point
\* was detected once for each of the N identities, and immediately after the
\* merge the Foreach Method Set is empty.
C5_MergeEmptiesForeachSet ==
    [][Merge =>
          /\ region.detected = region.selected
          /\ \A c \in region.selected : _clones.map[c].execute_next = Some("join")
          /\ heap'[flow'.fm] = <<>>]_vars
\* C11: assigning a value that is not a Runtime to the runtime property
\* raises TypeError and leaves the runtime assigned before (or its absence)
\* as it was; assigning a Runtime makes it the value the property reads back.
C11_SetterRejectsNonRuntime ==
    [][\A isruntime \in BOOLEAN, rt \in Runtimes :
          SetRuntime(isruntime, rt) =>
            IF isruntime
            THEN raised' = NoError /\ flow'.runtime = Some(rt)
            ELSE raised'.type = "TypeError" /\ flow' = flow]_vars

\* C11 witness: a flow that has a runtime was assigned a non-Runtime; the
\* assignment raised and the runtime is still there.
C11_Witness ==
    /\ call.op = "runtime.setter"
    /\ ~call.isruntime
    /\ raised.type = "TypeError"
    /\ Has(flow.runtime)
\* The fields of a clone that a fan-out does not set on purpose: all but its
\* input and the identity of its Foreach Method Set.
Inherited(o) ==
    [attrs |-> o.attrs, execute_next |-> o.execute_next, mi |-> o.mi]

\* C12: every fan-out (an aggregator-to-collaborator next() with foreach)
\* empties and rebuilds the registry, so that after it the registry has one
\* clone per collaborator of the runtime and the clone of every selected
\* identity is a copy of the primary as it is at this fan-out, never a clone
\* left over from an earlier fan-out.
C12_RegistryRebuiltPerFanOut ==
    [][\A e \in Edges, kwargs \in FlowKwargs :
          (aggregator_to_collaborator(e[2], e[1]) /\ Has(kwargs.foreach)
           /\ Has(flow.runtime) /\ RuntimeKind(World) = "FederatedRuntime"
           /\ NextCall(e[2], e[1], kwargs) /\ raised' = NoError) =>
            /\ DOMAIN _clones'.map = Get(flow.runtime).collaborators
            /\ \A c \in Range(flow'.attrs[Get(kwargs.foreach)]) :
                 Inherited(_clones'.map[c]) = Inherited(flow')]_vars
\* The clones of the identities the last fan-out selected are there and are
\* copies of the flow that fanned out.
ClonesAreOwn ==
    \A c \in Range(flow.attrs[Get(call.kwargs.foreach)]) :
        /\ c \in DOMAIN _clones.map
        /\ Inherited(_clones.map[c]) = Inherited(flow)

\* The other flow of the process has made no call: the flow is the only
\* one that uses the registry.
OnlyFlow == other.call.op = "init"

\* C13: the clone registry is shared by the flows of a process, and with a
\* single active flow run per registry no fan-out operates on clones that
\* are not copies of the flow's own state or finds its identities missing:
\* while the other flow has made no call, a fan-out without filters on an
\* aggregator-to-collaborator transition that completes leaves the clone of
\* every selected identity a copy of the flow.
C13_SingleFlowClonesAreOwn ==
    (/\ FannedOut
     /\ OnlyFlow
     /\ aggregator_to_collaborator(call.f, call.parent_func)
     /\ call.kwargs.include = None
     /\ call.kwargs.exclude = None) => ClonesAreOwn

\* C13, the second round: a lone flow fanned out a second time over the
\* clones of its first fan-out, which had reached their transition point.
C13_SecondRoundOnOldClones ==
    /\ FannedOut
    /\ OnlyFlow
    /\ aggregator_to_collaborator(call.f, call.parent_func)
    /\ call.kwargs.exclude = None
    /\ flow.execute_next = None
    /\ heap[flow.fm] = <<"train", "join", "train">>
    /\ \A c \in Range(flow.attrs[Get(call.kwargs.foreach)]) :
         c \in DOMAIN _clones.map /\ _clones.map[c].execute_next = Some("join")

\* C13, the missing identity: the distributed flow fanned out over both
\* collaborators after the local flow's run() had rebuilt the registry for
\* its one collaborator, and the fan-out found no clone of the other.
C13_IdentityMissing ==
    /\ call.op = "next"
    /\ call.kwargs.foreach = Some("collaborators")
    /\ flow.attrs["collaborators"] = <<"c1", "c2">>
    /\ raised = Error(LookupError(World))
    /\ other.call.op = "run"
    /\ DOMAIN _clones.map = {"c1"}

\* C13, the unsafe interleaving: a flow without the datum x fanned out after
\* the other flow's run() had replaced the registry, and its clones carry the
\* other flow's x.
C13_OtherFlowsClones ==
    /\ FannedOut
    /\ other.call.op = "run"
    /\ "x" \notin DOMAIN flow.attrs
    /\ \E c \in Range(flow.attrs[Get(call.kwargs.foreach)]) \cap DOMAIN _clones.map :
         /\ _clones.map[c].input = Some(c)
         /\ "x" \in DOMAIN _clones.map[c].attrs
         /\ "x" \in DOMAIN other.flow.attrs
         /\ _clones.map[c].attrs["x"] = other.flow.attrs["x"]

\* C13, one run after the other: the same with the other flow's run() over
\* and the fan-out the flow's first call (the return of the one and the call
\* of the other commute).
C13_AfterTheOtherRun ==
    /\ C13_OtherFlowsClones
    /\ other.call.task = "returned"
    /\ other.pc = "idle"
    /\ heap[flow.fm] = <<"train">>

\* C13, the open region: the local flow's run() rebound the registry while
\* a region of the distributed flow was open; the request of the fan-out
\* still holds the dict it was given, and the transition-point checks go on
\* on the flow's own clones, which share its Foreach Method Set.
C13_RegionKeepsItsClones ==
    /\ call.op = "_is_at_transition_point"
    /\ call.ret
    /\ flow.args.clones.held = "detached"
    /\ other.call.op = "run"
    /\ other.pc = "executing"
    /\ DOMAIN _clones.map = {"c1"}
    /\ DOMAIN flow.args.clones.map = Ids
    /\ region.detected = Ids
    /\ heap[flow.fm] = <<"train", "join", "join">>
    /\ \A c \in Ids : /\ flow.args.clones.map[c].execute_next = Some("join")
                      /\ flow.args.clones.map[c].fm = flow.fm

\* C14: a next() on an aggregator-to-collaborator transition that declares
\* include or exclude captures the snapshot before it filters the primary:
\* the snapshot recorded with the request holds every attribute the primary
\* had on entry, those the filter removes included, and a later assignment
\* to the primary does not change it.
C14_SnapshotBeforeFiltering ==
    [][/\ \A e \in Edges, kwargs \in KwargsSet :
            (aggregator_to_collaborator(e[2], e[1])
             /\ Has(kwargs.include) # Has(kwargs.exclude)
             /\ NextCall(e[2], e[1], kwargs) /\ raised' = NoError
             /\ flow'.args.form \in {"local", "federated_foreach"}) =>
                /\ flow'.args.ss = Some(<< [attrs |-> flow.attrs] >>)
                /\ \A n \in DOMAIN flow'.attrs :
                     n \in DOMAIN flow.attrs /\ flow'.attrs[n] = flow.attrs[n]
       /\ \A value \in ValuesOf("x") :
            SetAttr("x", value) => flow'.args.ss = flow.args.ss]_vars

\* C14 witness: an aggregator-to-collaborator next() excluded x; the primary
\* has lost x, the recorded snapshot has it, and the primary was assigned a
\* new x afterwards.
C14_Witness ==
    /\ call.op = "setattr"
    /\ flow.args.form \in {"local", "federated_foreach"}
    /\ aggregator_to_collaborator(flow.args.f, flow.args.parent)
    /\ flow.args.kwargs.exclude = Some(<<"x">>)
    /\ Len(Get(flow.args.ss)) = 1
    /\ "x" \in DOMAIN Get(flow.args.ss)[1].attrs
    /\ Get(flow.args.ss)[1].attrs["x"] # flow.attrs["x"]
\* C15: after a next() with foreach under the distributed runtime, the clone
\* of every selected identity carries no attribute named in the exclude
\* list, whatever its length and whichever of its names the clone has, and
\* with an include list carries only attributes named in it.
C15_ClonesFiltered ==
    (FannedOut /\ flow.args.form = "federated_foreach") =>
        \A c \in Range(flow.attrs[Get(call.kwargs.foreach)]) :
            /\ Has(call.kwargs.exclude) =>
                 DOMAIN _clones.map[c].attrs \cap Range(Get(call.kwargs.exclude)) = {}
            /\ Has(call.kwargs.include) =>
                 DOMAIN _clones.map[c].attrs \subseteq Range(Get(call.kwargs.include))
\* The last call was _is_at_transition_point.
Checked == call.op = "_is_at_transition_point"

\* What a check does besides answering: f joins the clone's Foreach Method
\* Set exactly when parent was in it, and a reported transition point
\* records f as the step to execute next.
CheckBookkeeping(c, f, parent_func) ==
    /\ SetOfAfter(c) = IF parent_func \in Range(SetOf(c))
                       THEN Append(SetOf(c), f) ELSE SetOf(c)
    /\ _clones'.map[c].execute_next =
          IF call'.ret THEN Some(f) ELSE _clones.map[c].execute_next

\* C16, as stated: _is_at_transition_point(f, parent) reports a transition
\* point exactly when f is a collaborator-to-aggregator transfer relative to
\* parent; f joins the Foreach Method Set exactly when parent was in it; a
\* reported transition point records f as the step to execute next.
C16_ReportsEveryTransfer ==
    [][\A c \in Ids, f \in Steps, parent_func \in Steps :
          TransitionCheck(c, f, parent_func) =>
            /\ call'.ret = collaborator_to_aggregator(f, parent_func)
            /\ CheckBookkeeping(c, f, parent_func)]_vars

\* C16, amended: _is_at_transition_point(f, parent) reports a transition
\* point exactly when parent is in the Foreach Method Set and f is a
\* collaborator-to-aggregator transfer relative to parent; f joins the set
\* exactly when parent was in it; a reported transition point records f as
\* the step to execute next.
C16_ReportsTransferInsideRegion ==
    [][\A c \in Ids, f \in Steps, parent_func \in Steps :
          TransitionCheck(c, f, parent_func) =>
            /\ call'.ret = (parent_func \in Range(SetOf(c))
                            /\ collaborator_to_aggregator(f, parent_func))
            /\ CheckBookkeeping(c, f, parent_func)]_vars

\* C16 witness: a collaborator-to-aggregator step was checked on a clone
\* whose Foreach Method Set lacks the parent, and no transition point was
\* reported.
C16_Witness ==
    /\ Checked
    /\ collaborator_to_aggregator(call.f, call.parent_func)
    /\ call.parent_func \notin Range(SetOf(call.c))
    /\ ~call.ret
    /\ _clones.map[call.c].execute_next = None
\* s is a prefix of t.
IsPrefix(s, t) == Len(s) <= Len(t) /\ \A i \in 1 .. Len(s) : t[i] = s[i]

\* This step is a next(f, foreach=name) on an aggregator-to-collaborator
\* transition, and it completes: a fan-out starts.
FanOutStarts ==
    /\ call'.op = "next"
    /\ Has(call'.kwargs.foreach)
    /\ aggregator_to_collaborator(call'.f, call'.parent_func)
    /\ raised' = NoError

\* C17 (growth): a next() call or a transition-point check that does not
\* start a fan-out removes no element of the primary's Foreach Method Set.
C17_ForeachSetGrows ==
    [][(call'.op \in {"next", "_is_at_transition_point"} /\ ~FanOutStarts)
          => IsPrefix(heap[flow.fm], heap'[flow'.fm])]_vars

\* C17: between two fan-out starts the Foreach Method Set only grows, and
\* each fan-out start resets it, so that when a region begins the set holds
\* no step name recorded in an earlier region (at most the step fanned out).
C17_ForeachSetResetAtFanOut ==
    [][IF FanOutStarts
       THEN heap'[flow'.fm] \in {<<>>, <<call'.f>>}
       ELSE call'.op \in {"next", "_is_at_transition_point"}
               => IsPrefix(heap[flow.fm], heap'[flow'.fm])]_vars
\* The last call was a next() that completed under a supported runtime.
NextCompleted == call.op = "next" /\ raised = NoError /\ Supported

\* C18 (the parts of the request every form has): the recorded request
\* names the target step, the parent step and the kwargs of the call.
C18_RequestNamesSteps ==
    NextCompleted =>
        /\ flow.args.f = call.f
        /\ flow.args.parent = call.parent_func
        /\ flow.args.kwargs = call.kwargs

\* C18: every next() that completes under a supported runtime records a
\* request with the target step, the parent step, the snapshot captured for
\* the transition and the kwargs, and with the whole clone set when foreach
\* is given; a snapshot captured on an aggregator-to-collaborator transition
\* is never missing from the request.
C18_RequestComplete ==
    NextCompleted =>
        /\ flow.args.f = call.f
        /\ flow.args.parent = call.parent_func
        /\ flow.args.kwargs = call.kwargs
        /\ flow.args.form \in {"local", "federated_foreach"}
        /\ aggregator_to_collaborator(call.f, call.parent_func) => Has(flow.args.ss)
        /\ Has(call.kwargs.foreach) => flow.args.form = "federated_foreach"
\* The clone of c is a copy of the primary: same attributes, same fields, a
\* Foreach Method Set of equal content.
CopyOfPrimary(c) ==
    /\ _clones.map[c].attrs = flow.attrs
    /\ _clones.map[c].input = flow.input
    /\ _clones.map[c].execute_next = flow.execute_next
    /\ _clones.map[c].mi = flow.mi
    /\ heap[_clones.map[c].fm] = heap[flow.fm]

\* run() under the local runtime has reached the call of the Runtime.
HandedOff ==
    /\ call.op = "run"
    /\ call.task = "not called"
    /\ pc = "executing"

\* C19: where run() under the local runtime hands the start step to the
\* Runtime, the Foreach Method Set is empty, the keys of the clone registry
\* are the runtime's collaborators and each clone is a copy of the primary,
\* whatever earlier calls left in the registry or the set.
C19_HandOffStartsClean ==
    HandedOff =>
        /\ heap[flow.fm] = <<>>
        /\ _clones.isdict
        /\ DOMAIN _clones.map = Get(flow.runtime).collaborators
        /\ \A c \in DOMAIN _clones.map : CopyOfPrimary(c)

\* C19 witness: run() handed off, the registry having held a clone of a
\* collaborator the runtime does not have and the set a step name.
C19_Witness ==
    /\ HandedOff
    /\ call.left.fm # <<>>
    /\ call.left.keys = {"c1", "c2"}
    /\ Get(flow.runtime).collaborators = {"c1"}
    /\ "x" \in DOMAIN flow.attrs

\* C19, the earlier run: run() handed off right after a run that failed and
\* left its clones in the registry.
C19_AfterFailedRun ==
    HandedOff /\ call.left.raised # "none" /\ call.left.keys # {}
\* No element occurs twice in s.
NoDup(s) == \A i, j \in 1 .. Len(s) : s[i] = s[j] => i = j

\* The second round of a looping flow has fanned out: the set holds the
\* names of the first region and the fanned-out step again.
SecondRound == heap[flow.fm] = <<"train", "join", "train">>

\* C20: after any sequence of next() calls and transition-point checks,
\* flows looping over the same steps included, each step name occurs at most
\* once in the Foreach Method Set of the primary and of every clone, so its
\* size never exceeds the number of steps of the flow.
C20_EachStepOnce ==
    /\ NoDup(heap[flow.fm])
    /\ Len(heap[flow.fm]) <= Cardinality(Steps)
    /\ \A c \in DOMAIN _clones.map :
         /\ NoDup(heap[_clones.map[c].fm])
         /\ Len(heap[_clones.map[c].fm]) <= Cardinality(Steps)
====
